---------------------------- MODULE Spec2Model ----------------------------
(***************************************************************************)
(* A model of the three configuration utilities of the template:           *)
(*   merge-pyproject-toml.py        (the pyproject.toml merger)            *)
(*   fix-duplicate-toml-sections.py (the duplicate-section repairer)       *)
(*   process-workflow-template.py   (the workflow template processor)      *)
(*                                                                         *)
(* Text is a sequence of glyphs.  A glyph is one character ("=", "[", a    *)
(* space, a newline) or a run of characters that the programs only ever    *)
(* treat as a unit and that occurs nowhere else in the text: a marker such *)
(* as "{{#IF_PHASE_1}}", the option prefix "--cov", the section header     *)
(* "[tool.pytest.ini_options]".  String operations (split, strip,          *)
(* startswith, the regular expressions) are computed on the glyphs.        *)
(*                                                                         *)
(* A parsed TOML value is a tagged record [kind, val]: Python tests        *)
(* isinstance(x, dict) and isinstance(x, str), so the kind is part of the  *)
(* value.  A dict is a function from its keys; key order is not modelled   *)
(* (Python compares dicts regardless of order).                            *)
(***************************************************************************)
EXTENDS Integers, Sequences, FiniteSets, TLC

VARIABLES
    pc,                 \* which script runs and where it stands
    \* merge-pyproject-toml.py: merge_pyproject_toml
    existing_data,      \* parsed existing pyproject.toml
    template_data,      \* parsed template pyproject.toml
    overwrite_tools,    \* the --overwrite-tools flag
    merged_data,        \* the document written to output_path
    files,              \* what each path holds on disk
    output_path,        \* the path merge_pyproject_toml writes to
    error,              \* the exception that ended the call, or "none"
    \* merge-pyproject-toml.py: _merge_pytest_selectively called on its own
    existing_pytest,
    template_pytest,
    merged_pytest,
    \* fix-duplicate-toml-sections.py: fix_duplicate_sections
    file,               \* content of file_path
    backup,             \* content of file_path.backup
    original,           \* content of file_path before the first run
    returned,           \* return value of the last run
    n_matches,          \* len(matches) of the last run
    all_settings,       \* the merged settings of the last run, in insertion order
    runs,               \* number of runs so far
    \* process-workflow-template.py: process_template
    template_content,
    config,
    processed_content

vars == <<pc, existing_data, template_data, overwrite_tools, merged_data,
          files, output_path, error,
          existing_pytest, template_pytest, merged_pytest,
          file, backup, original, returned, n_matches, all_settings, runs,
          template_content, config, processed_content>>

ioVars == <<files, output_path, error>>
mergeVars == <<existing_data, template_data, overwrite_tools, merged_data, ioVars>>
pytestVars == <<existing_pytest, template_pytest, merged_pytest>>
fixVars == <<file, backup, original, returned, n_matches, all_settings, runs>>
templateVars == <<template_content, config, processed_content>>

-----------------------------------------------------------------------------
(* Bounds of the explored inputs *)

MaxLeaf == 2        \* distinct scalar values 1..MaxLeaf in configuration tables
MaxStrLen == 4      \* glyphs in an existing addopts string
MaxMarkers == 2     \* entries in a markers list
MaxLines == 4       \* lines in a pyproject.toml given to the repairer
MaxRuns == 3        \* consecutive runs of the repairer on one file
MaxSegments == 2    \* segments (text or phase block) in a workflow template
MaxSoup == 4        \* glyphs in an arbitrary (possibly malformed) template

-----------------------------------------------------------------------------
(* Values and text helpers *)

None == [kind |-> "none", val |-> 0]
Num(n) == [kind |-> "int", val |-> n]
Str(s) == [kind |-> "str", val |-> s]
List(l) == [kind |-> "list", val |-> l]
Dict(d) == [kind |-> "dict", val |-> d]

EmptyDict == [k \in {} |-> None]

IsDict(v) == v.kind = "dict"
IsStr(v) == v.kind = "str"

\* d.get(k, default)
Get(d, k, default) == IF k \in DOMAIN d THEN d[k] ELSE default

\* d[k] = v
Put(d, k, v) == [x \in DOMAIN d \cup {k} |-> IF x = k THEN v ELSE d[x]]

\* bool(v) for the strings and lists that reach `if existing_addopts:`
Truthy(v) == v.val # <<>>

IsSpace(g) == g \in {" ", "\n"}

\* Glyphs whose first character is "-"
DashGlyphs == {"--cov", "-v", "-r"}

RECURSIVE SplitAcc(_, _, _)
SplitAcc(s, cur, acc) ==
    IF s = <<>>
    THEN IF cur = <<>> THEN acc ELSE Append(acc, cur)
    ELSE IF IsSpace(Head(s))
         THEN SplitAcc(Tail(s), <<>>, IF cur = <<>> THEN acc ELSE Append(acc, cur))
         ELSE SplitAcc(Tail(s), Append(cur, Head(s)), acc)

\* str.split(): the maximal runs of non-whitespace glyphs
Split(s) == SplitAcc(s, <<>>, <<>>)

RECURSIVE Join(_, _)
\* sep.join(parts)
Join(sep, parts) ==
    IF parts = <<>> THEN <<>>
    ELSE IF Len(parts) = 1 THEN parts[1]
    ELSE parts[1] \o sep \o Join(sep, Tail(parts))

RECURSIVE LStrip(_)
LStrip(s) == IF s # <<>> /\ IsSpace(Head(s)) THEN LStrip(Tail(s)) ELSE s

RECURSIVE RStrip(_)
RStrip(s) ==
    IF s # <<>> /\ IsSpace(s[Len(s)]) THEN RStrip(SubSeq(s, 1, Len(s) - 1)) ELSE s

\* str.strip()
Strip(s) == RStrip(LStrip(s))

\* name.startswith(prefix)
StartsWith(name, prefix) ==
    Len(name) >= Len(prefix) /\ SubSeq(name, 1, Len(prefix)) = prefix

\* Index of the first occurrence of glyph g in s at or after position i, or 0
RECURSIVE Find(_, _, _)
Find(s, g, i) ==
    IF i > Len(s) THEN 0 ELSE IF s[i] = g THEN i ELSE Find(s, g, i + 1)

\* list(dict.fromkeys(items)): first occurrences, in order
RECURSIVE DedupAcc(_, _)
DedupAcc(items, acc) ==
    IF items = <<>> THEN acc
    ELSE DedupAcc(Tail(items),
                  IF \E i \in 1..Len(acc) : acc[i] = Head(items)
                  THEN acc ELSE Append(acc, Head(items)))

Dedup(items) == DedupAcc(items, <<>>)

-----------------------------------------------------------------------------
(* merge-pyproject-toml.py *)

\* A shallow dict.update(): the template's value replaces the existing one
MergeDictRecursive_Update(existing_dict, template_dict) ==
    [key \in DOMAIN existing_dict \cup DOMAIN template_dict |->
        IF key \in DOMAIN template_dict
        THEN template_dict[key] ELSE existing_dict[key]]

RECURSIVE MergeDictRecursive(_, _)
\* _merge_dict_recursive: keep every existing key, add the missing ones, and
\* recurse where both sides hold a dict
MergeDictRecursive(existing_dict, template_dict) ==
    [key \in DOMAIN existing_dict \cup DOMAIN template_dict |->
        IF key \notin DOMAIN existing_dict
        THEN template_dict[key]
        ELSE IF key \in DOMAIN template_dict
                /\ IsDict(template_dict[key]) /\ IsDict(existing_dict[key])
             THEN Dict(MergeDictRecursive(existing_dict[key].val,
                                          template_dict[key].val))
             ELSE existing_dict[key]]

\* The args list of _extract_coverage_settings and of the template's
\* standard options: split a string, join-and-split a list
ArgsOf(addopts_value) ==
    IF IsStr(addopts_value)
    THEN Split(addopts_value.val)
    ELSE Split(Join(<<" ">>, addopts_value.val))

RECURSIVE ExtractLoop(_, _, _)
\* The while loop of _extract_coverage_settings; the result is coverage_args
ExtractLoop(args, i, coverage_args) ==
    IF i > Len(args) THEN coverage_args
    ELSE IF StartsWith(args[i], <<"--cov">>)
         THEN IF args[i] = <<"--cov">> /\ i + 1 <= Len(args)
                 /\ Head(args[i + 1]) \notin DashGlyphs
              THEN ExtractLoop(args, i + 2,
                               coverage_args \o <<args[i], args[i + 1]>>)
              ELSE ExtractLoop(args, i + 1, Append(coverage_args, args[i]))
         ELSE ExtractLoop(args, i + 1, coverage_args)

\* _extract_coverage_settings(addopts_value)[0]
ExtractCoverageSettings(addopts_value) == ExtractLoop(ArgsOf(addopts_value), 1, <<>>)

\* A merge that puts the user's coverage options before the template's
MergeAddopts_UserFirst(existing_ini, template_ini) ==
    LET template_addopts == Get(template_ini, "addopts", Str(<<>>))
        existing_addopts == Get(existing_ini, "addopts", List(<<>>))
    IN  IF Truthy(existing_addopts)
        THEN Str(Join(<<" ">>, Dedup(ExtractCoverageSettings(existing_addopts)
                                     \o ArgsOf(template_addopts))))
        ELSE template_addopts

\* Step 3 of _merge_pytest_selectively: the merged addopts value
MergeAddopts(existing_ini, template_ini) ==
    LET template_addopts == Get(template_ini, "addopts", Str(<<>>))
        existing_addopts == Get(existing_ini, "addopts", List(<<>>))
    IN  IF Truthy(existing_addopts)
        THEN LET user_coverage_args == ExtractCoverageSettings(existing_addopts)
                 standard_args == ArgsOf(template_addopts)
                 all_args == standard_args \o user_coverage_args
             IN  Str(Join(<<" ">>, Dedup(all_args)))
        ELSE template_addopts

\* marker.split(':')[0].strip()
MarkerName(marker) ==
    LET c == Find(marker, ":", 1)
    IN  Strip(IF c = 0 THEN marker ELSE SubSeq(marker, 1, c - 1))

RECURSIVE AddMarkers(_, _)
\* One of the two marker loops: append the markers whose name is not taken
AddMarkers(merged_markers, markers) ==
    IF markers = <<>> THEN merged_markers
    ELSE AddMarkers(
            IF \E i \in 1..Len(merged_markers) :
                   MarkerName(merged_markers[i]) = MarkerName(Head(markers))
            THEN merged_markers
            ELSE Append(merged_markers, Head(markers)),
            Tail(markers))

\* A merge that lets the existing markers take precedence
MergeMarkers_ExistingFirst(existing_ini, template_ini) ==
    LET existing_markers == Get(existing_ini, "markers", List(<<>>)).val
        template_markers == Get(template_ini, "markers", List(<<>>)).val
    IN  AddMarkers(AddMarkers(<<>>, existing_markers), template_markers)

\* Step 4 of _merge_pytest_selectively: template markers first, then existing
MergeMarkers(existing_ini, template_ini) ==
    LET existing_markers == Get(existing_ini, "markers", List(<<>>)).val
        template_markers == Get(template_ini, "markers", List(<<>>)).val
    IN  AddMarkers(AddMarkers(<<>>, template_markers), existing_markers)

StructureKeys == {"testpaths", "python_files", "python_classes", "python_functions"}

\* _merge_pytest_selectively
MergePytestSelectively(existing_pytest_, template_pytest_) ==
    IF "ini_options" \notin DOMAIN existing_pytest_
       /\ "ini_options" \notin DOMAIN template_pytest_
    THEN Dict(template_pytest_)
    ELSE
    LET existing_ini == Get(existing_pytest_, "ini_options", Dict(EmptyDict)).val
        template_ini == Get(template_pytest_, "ini_options", Dict(EmptyDict)).val
        merged_markers == MergeMarkers(existing_ini, template_ini)
        merged_ini ==
            [key \in DOMAIN existing_ini \cup DOMAIN template_ini \cup {"addopts"} |->
                CASE key = "minversion" /\ key \in DOMAIN template_ini ->
                        template_ini[key]
                  [] key \in StructureKeys /\ key \in DOMAIN existing_ini ->
                        existing_ini[key]
                  [] key \in StructureKeys /\ key \notin DOMAIN existing_ini ->
                        template_ini[key]
                  [] key = "addopts" -> MergeAddopts(existing_ini, template_ini)
                  [] key = "markers" /\ merged_markers # <<>> ->
                        List(merged_markers)
                  [] OTHER ->
                        IF key \in DOMAIN existing_ini
                        THEN existing_ini[key] ELSE template_ini[key]]
    IN  Dict([k \in {"ini_options"} |-> Dict(merged_ini)])

\* tools_to_overwrite and tools_to_merge_selectively.  A tool name is a
\* sequence of glyphs, so that tool_name.startswith(t) is computed.
tools_to_overwrite ==
    {<<"black">>, <<"isort">>, <<"mypy">>, <<"coverage">>, <<"flake8">>, <<"ruff">>}
tools_to_merge_selectively == {<<"pytest">>}

CriticalSections == {"build-system", "project"}

\* A merger that starts from the template's sections: the template wins
PreserveCritical_TemplateWins(existing, template) ==
    [key \in (DOMAIN existing \cup DOMAIN template) \cap CriticalSections |->
        IF key \in DOMAIN template THEN template[key] ELSE existing[key]]

\* "ALWAYS preserve critical sections from existing file"
PreserveCritical(existing, template) ==
    [key \in DOMAIN existing \cap CriticalSections |-> existing[key]]

\* An overwrite loop that merges an allow-listed tool instead of replacing it
OverwriteOne_Merges(tool, tool_name, tool_config) ==
    IF tool_name \notin DOMAIN tool
    THEN Put(tool, tool_name, tool_config)
    ELSE IF IsDict(tool_config) /\ IsDict(tool[tool_name])
         THEN Put(tool, tool_name,
                  Dict(MergeDictRecursive(tool_config.val, tool[tool_name].val)))
         ELSE tool

\* The value the overwrite loop leaves at merged_data['tool'][tool_name] for
\* a tool_name the template defines
OverwriteOne(tool, tool_name, tool_config) ==
    IF tool_name \in tools_to_merge_selectively
    THEN IF tool_name = <<"pytest">>
         THEN Put(tool, tool_name,
                  MergePytestSelectively(Get(tool, tool_name, Dict(EmptyDict)).val,
                                         tool_config.val))
         ELSE tool
    ELSE IF \E t \in tools_to_overwrite : StartsWith(tool_name, t)
         THEN Put(tool, tool_name, tool_config)
         ELSE IF tool_name \notin DOMAIN tool
              THEN Put(tool, tool_name, tool_config)
              ELSE tool

\* The value the additive loop leaves at merged_data['tool'][tool_name]
AdditiveOne(tool, tool_name, tool_config) ==
    IF tool_name \notin DOMAIN tool
    THEN Put(tool, tool_name, tool_config)
    ELSE IF IsDict(tool_config) /\ IsDict(tool[tool_name])
         THEN Put(tool, tool_name,
                  Dict(MergeDictRecursive(tool[tool_name].val, tool_config.val)))
         ELSE tool

RECURSIVE MergeTools(_, _, _, _)
\* for tool_name, tool_config in template_data['tool'].items(): ...
\* `todo` is the set of template tools not yet visited; each iteration
\* writes only its own key, so the order of the visit does not matter.
MergeTools(tool, template_tool, todo, overwrite) ==
    IF todo = {} THEN tool
    ELSE LET tool_name == CHOOSE n \in todo : TRUE
             next == IF overwrite
                     THEN OverwriteOne(tool, tool_name, template_tool[tool_name])
                     ELSE AdditiveOne(tool, tool_name, template_tool[tool_name])
         IN  MergeTools(next, template_tool, todo \ {tool_name}, overwrite)

\* "Copy any other top-level sections from existing file"
CopyOtherSections(merged, existing) ==
    [key \in DOMAIN merged \cup (DOMAIN existing \ {"tool"}) |->
        IF key \in DOMAIN merged THEN merged[key] ELSE existing[key]]

\* merge_pyproject_toml: the merged_data that is dumped to output_path
MergePyprojectToml(existing, template, overwrite) ==
    LET critical == PreserveCritical(existing, template)
        tool0 == Get(existing, "tool", Dict(EmptyDict)).val
        tool1 == IF "tool" \in DOMAIN template
                 THEN MergeTools(tool0, template["tool"].val,
                                 DOMAIN template["tool"].val, overwrite)
                 ELSE tool0
    IN  CopyOtherSections(Put(critical, "tool", Dict(tool1)), existing)

-----------------------------------------------------------------------------
(* fix-duplicate-toml-sections.py *)

\* The glyph of the section header "[tool.pytest.ini_options]"
HDR == "[tool.pytest.ini_options]"
QUOTE == "\""

\* Glyphs whose first character is "[": where the lookahead (?=\[|\Z) stops
OpensBracket(g) == g \in {"[", HDR}

RECURSIVE NextBracket(_, _)
\* First position at or after i where "[" occurs, or Len + 1 (\Z)
NextBracket(content, i) ==
    IF i > Len(content) THEN Len(content) + 1
    ELSE IF OpensBracket(content[i]) THEN i
    ELSE NextBracket(content, i + 1)

RECURSIVE FindMatchesFrom(_, _, _)
FindMatchesFrom(content, pos, acc) ==
    LET i == Find(content, HDR, pos)
    IN  IF i = 0 THEN acc
        ELSE LET e == NextBracket(content, i + 1)
             IN  FindMatchesFrom(content, e,
                                 Append(acc, [start |-> i, end |-> e]))

\* list(re.finditer(pytest_pattern, content, re.DOTALL)): a match covers the
\* glyphs start .. end - 1, and group(1) the glyphs start + 1 .. end - 1
FindMatches(content) == FindMatchesFrom(content, 1, <<>>)

RECURSIVE SplitOnAcc(_, _, _, _)
SplitOnAcc(s, sep, cur, acc) ==
    IF s = <<>> THEN Append(acc, cur)
    ELSE IF Head(s) = sep
         THEN SplitOnAcc(Tail(s), sep, <<>>, Append(acc, cur))
         ELSE SplitOnAcc(Tail(s), sep, Append(cur, Head(s)), acc)

\* s.split(sep): empty fields are kept
SplitOn(s, sep) == SplitOnAcc(s, sep, <<>>, <<>>)

RECURSIVE FindQuotedFrom(_, _, _)
FindQuotedFrom(s, pos, acc) ==
    LET i == Find(s, QUOTE, pos)
        j == IF i = 0 THEN 0 ELSE Find(s, QUOTE, i + 1)
    IN  IF i = 0 \/ j = 0 THEN acc
        ELSE FindQuotedFrom(s, j + 1, Append(acc, SubSeq(s, i + 1, j - 1)))

\* re.findall(r'"([^"]*)"', s)
FindQuoted(s) == FindQuotedFrom(s, 1, <<>>)

RECURSIVE QuoteItems(_)
\* ',\n    '.join(f'"{item}"' for item in combined)
QuoteItems(items) ==
    IF items = <<>> THEN <<>>
    ELSE <<QUOTE>> \o Head(items) \o <<QUOTE>>
         \o (IF Len(items) = 1 THEN <<>>
             ELSE <<",", "\n", " ", " ", " ", " ">> \o QuoteItems(Tail(items)))

\* The merged array value of line 64
MergedArray(old_value, new_value) ==
    LET combined == Dedup(FindQuoted(old_value) \o FindQuoted(new_value))
    IN  <<"[", "\n", " ", " ", " ", " ">> \o QuoteItems(combined)
        \o <<",", "\n", "]">>

\* value.startswith('[')
IsArrayValue(value) == value # <<>> /\ OpensBracket(Head(value))

\* Index of key in the settings (kept in insertion order), or 0
RECURSIVE KeyIndex(_, _, _)
KeyIndex(settings, key, i) ==
    IF i > Len(settings) THEN 0
    ELSE IF settings[i].key = key THEN i
    ELSE KeyIndex(settings, key, i + 1)

\* The body of `for line in section_content.split('\n')` for one line
ParseLine(settings, raw_line) ==
    LET line == Strip(raw_line)
        eq == Find(line, "=", 1)
    IN  IF line = <<>> \/ Head(line) = "#" \/ eq = 0 THEN settings
        ELSE LET key == Strip(SubSeq(line, 1, eq - 1))
                 value == Strip(SubSeq(line, eq + 1, Len(line)))
                 at == KeyIndex(settings, key, 1)
             IN  IF at = 0
                 THEN Append(settings, [key |-> key, value |-> value])
                 ELSE IF IsArrayValue(value) /\ IsArrayValue(settings[at].value)
                      THEN [settings EXCEPT
                               ![at].value = MergedArray(settings[at].value, value)]
                      ELSE settings

RECURSIVE ParseLines(_, _)
ParseLines(settings, lines) ==
    IF lines = <<>> THEN settings
    ELSE ParseLines(ParseLine(settings, Head(lines)), Tail(lines))

RECURSIVE ParseSections(_, _, _)
\* for i, match in enumerate(matches): parse match.group(1).strip()
ParseSections(content, matches, settings) ==
    IF matches = <<>> THEN settings
    ELSE LET m == Head(matches)
             section_content == Strip(SubSeq(content, m.start + 1, m.end - 1))
         IN  ParseSections(content, Tail(matches),
                           ParseLines(settings, SplitOn(section_content, "\n")))

RECURSIVE RenderSettings(_)
RenderSettings(settings) ==
    IF settings = <<>> THEN <<>>
    ELSE Head(settings).key \o <<" ", "=", " ">> \o Head(settings).value
         \o <<"\n">> \o RenderSettings(Tail(settings))

\* merged_content
MergedContent(settings) == <<HDR, "\n">> \o RenderSettings(settings)

\* A removal that cuts the first section only and leaves the later ones
RemoveMatches_FirstOnly(content, matches) ==
    IF matches = <<>> THEN content
    ELSE SubSeq(content, 1, matches[1].start - 1)
         \o SubSeq(content, matches[1].end, Len(content))

RECURSIVE RemoveMatches(_, _)
\* for match in reversed(matches): cut match.start() .. match.end()
RemoveMatches(content, matches) ==
    IF matches = <<>> THEN content
    ELSE LET m == matches[Len(matches)]
         IN  RemoveMatches(SubSeq(content, 1, m.start - 1)
                               \o SubSeq(content, m.end, Len(content)),
                           SubSeq(matches, 1, Len(matches) - 1))

\* new_content: the merged section inserted at the first section's offset
InsertMerged(content, matches, settings) ==
    LET removed == RemoveMatches(content, matches)
        insertion_point == matches[1].start
    IN  SubSeq(removed, 1, insertion_point - 1)
        \o MergedContent(settings) \o <<"\n">>
        \o SubSeq(removed, insertion_point, Len(removed))

-----------------------------------------------------------------------------
(* process-workflow-template.py *)

all_phases ==
    <<"PHASE_0", "PHASE_1", "PHASE_2", "PHASE_3",
      "PHASE_1_OR_HIGHER", "PHASE_2_OR_HIGHER">>

BlockNames ==
    {"HAS_FRONTEND", "HAS_BACKEND"} \cup {all_phases[i] : i \in 1..Len(all_phases)}

\* The glyph "{{#IF_<name>}}"
OpenMarker(name) ==
    CASE name = "HAS_FRONTEND" -> "{{#IF_HAS_FRONTEND}}"
      [] name = "HAS_BACKEND" -> "{{#IF_HAS_BACKEND}}"
      [] name = "PHASE_0" -> "{{#IF_PHASE_0}}"
      [] name = "PHASE_1" -> "{{#IF_PHASE_1}}"
      [] name = "PHASE_2" -> "{{#IF_PHASE_2}}"
      [] name = "PHASE_3" -> "{{#IF_PHASE_3}}"
      [] name = "PHASE_1_OR_HIGHER" -> "{{#IF_PHASE_1_OR_HIGHER}}"
      [] name = "PHASE_2_OR_HIGHER" -> "{{#IF_PHASE_2_OR_HIGHER}}"

\* The glyph "{{/IF_<name>}}"
CloseMarker(name) ==
    CASE name = "HAS_FRONTEND" -> "{{/IF_HAS_FRONTEND}}"
      [] name = "HAS_BACKEND" -> "{{/IF_HAS_BACKEND}}"
      [] name = "PHASE_0" -> "{{/IF_PHASE_0}}"
      [] name = "PHASE_1" -> "{{/IF_PHASE_1}}"
      [] name = "PHASE_2" -> "{{/IF_PHASE_2}}"
      [] name = "PHASE_3" -> "{{/IF_PHASE_3}}"
      [] name = "PHASE_1_OR_HIGHER" -> "{{/IF_PHASE_1_OR_HIGHER}}"
      [] name = "PHASE_2_OR_HIGHER" -> "{{/IF_PHASE_2_OR_HIGHER}}"

RECURSIVE SubMarkerNl(_, _)
\* re.sub(marker + r'\n?', '', s): the marker and a newline directly after it
SubMarkerNl(s, marker) ==
    IF s = <<>> THEN <<>>
    ELSE IF Head(s) = marker
         THEN IF Len(s) >= 2 /\ s[2] = "\n"
              THEN SubMarkerNl(SubSeq(s, 3, Len(s)), marker)
              ELSE SubMarkerNl(Tail(s), marker)
         ELSE <<Head(s)>> \o SubMarkerNl(Tail(s), marker)

\* re.sub(marker, '', s)
SubMarker(s, marker) == SelectSeq(s, LAMBDA g : g # marker)

\* The four substitutions that keep a block: its markers are stripped
KeepBlocks(s, name) ==
    SubMarker(SubMarker(SubMarkerNl(SubMarkerNl(s, OpenMarker(name)),
                                    CloseMarker(name)),
                        OpenMarker(name)),
              CloseMarker(name))

RECURSIVE RemoveBlocks(_, _)
\* re.sub(open + r'.*?' + close + r'\n?', '', s, flags=re.DOTALL): from an open
\* marker to the first close marker after it, and a newline directly after
RemoveBlocks(s, name) ==
    LET i == Find(s, OpenMarker(name), 1)
        j == IF i = 0 THEN 0 ELSE Find(s, CloseMarker(name), i + 1)
        e == IF j < Len(s) /\ s[j + 1] = "\n" THEN j + 1 ELSE j
    IN  IF i = 0 \/ j = 0 THEN s
        ELSE SubSeq(s, 1, i - 1) \o RemoveBlocks(SubSeq(s, e + 1, Len(s)), name)

\* A kept set in which phase 2 lacks the "1 or higher" blocks
PhasesToKeep_NoOrHigherAtTwo(current_phase) ==
    IF current_phase = 0 THEN {"PHASE_0"}
    ELSE IF current_phase = 1 THEN {"PHASE_1", "PHASE_1_OR_HIGHER"}
    ELSE IF current_phase = 2 THEN {"PHASE_2", "PHASE_2_OR_HIGHER"}
    ELSE IF current_phase >= 3
         THEN {"PHASE_3", "PHASE_1_OR_HIGHER", "PHASE_2_OR_HIGHER"}
    ELSE {}

\* phases_to_keep
PhasesToKeep(current_phase) ==
    IF current_phase = 0 THEN {"PHASE_0"}
    ELSE IF current_phase = 1 THEN {"PHASE_1", "PHASE_1_OR_HIGHER"}
    ELSE IF current_phase = 2
         THEN {"PHASE_2", "PHASE_1_OR_HIGHER", "PHASE_2_OR_HIGHER"}
    ELSE IF current_phase >= 3
         THEN {"PHASE_3", "PHASE_1_OR_HIGHER", "PHASE_2_OR_HIGHER"}
    ELSE {}

\* A gate that strips the markers whatever the flag says
GateBlocks_AlwaysKeep(s, name, keep) == KeepBlocks(s, name)

\* One gated block kind: strip the markers or remove the blocks
GateBlocks(s, name, keep) ==
    IF keep THEN KeepBlocks(s, name) ELSE RemoveBlocks(s, name)

RECURSIVE PhaseLoop(_, _, _)
\* for phase in all_phases: ...
PhaseLoop(s, i, phases_to_keep) ==
    IF i > Len(all_phases) THEN s
    ELSE PhaseLoop(GateBlocks(s, all_phases[i], all_phases[i] \in phases_to_keep),
                   i + 1, phases_to_keep)

\* process_template
ProcessTemplate(content, cfg) ==
    LET afterFrontend == GateBlocks(content, "HAS_FRONTEND", cfg.has_frontend)
        afterBackend == GateBlocks(afterFrontend, "HAS_BACKEND", cfg.has_backend)
    IN  PhaseLoop(afterBackend, 1, PhasesToKeep(cfg.current_phase))

-----------------------------------------------------------------------------
(* The explored inputs *)

\* All dicts with keys among `keys` and values in `vals`
DictsOver(keys, vals) == UNION {[ks -> vals] : ks \in SUBSET keys}

\* All sequences over `alphabet` of length at most n
SeqsUpTo(alphabet, n) == UNION {[1..k -> alphabet] : k \in 0..n}

RECURSIVE Flatten(_)
Flatten(parts) == IF parts = <<>> THEN <<>> ELSE Head(parts) \o Flatten(Tail(parts))

Leaves == {Num(n) : n \in 1..MaxLeaf}

\* A value under a key of a tool's table: a scalar or a nested table
EntryVals == Leaves \cup {Dict(d) : d \in DictsOver({"x"}, Leaves)}

\* A tool's configuration: a table, or (malformed but parseable) a scalar
GenericConfigs == Leaves \cup {Dict(d) : d \in DictsOver({"a", "b"}, EntryVals)}

SmallConfigs == {Dict([k \in {"a"} |-> Num(n)]) : n \in 1..2}

IniOf(ini) == Dict([k \in {"ini_options"} |-> Dict(ini)])

\* [tool.pytest] tables seen by the merger
PytestConfigs ==
    { Dict(EmptyDict),
      Dict([k \in {"a"} |-> Num(1)]),
      IniOf(EmptyDict),
      IniOf([k \in {"minversion"} |-> Num(1)]),
      IniOf([k \in {"minversion", "testpaths"} |-> Num(2)]),
      IniOf([k \in {"addopts"} |-> Str(<<"--cov", "pkg", " ", "-v">>)]),
      IniOf([k \in {"addopts"} |-> Str(<<"-r">>)]) }

ToolNames == {<<"black">>, <<"black", "doc">>, <<"hatch">>, <<"pytest">>}

ConfigsFor(name) == IF name = <<"pytest">> THEN PytestConfigs ELSE GenericConfigs

\* [tool] tables with no tool, one tool, or two tools with small tables
ToolTables ==
    {EmptyDict}
    \cup UNION {{[n \in {name} |-> c] : c \in ConfigsFor(name)} : name \in ToolNames}
    \cup UNION {[{n1, n2} -> SmallConfigs] :
                    <<n1, n2>> \in {p \in ToolNames \X ToolNames : p[1] # p[2]}}

SmallToolTables ==
    { EmptyDict,
      [n \in {<<"black">>, <<"hatch">>} |-> Dict([k \in {"a"} |-> Num(1)])],
      [n \in {<<"black">>, <<"hatch">>} |-> Dict([k \in {"a"} |-> Num(2)])] }

\* A parsed document from its optional sections (None: the section is absent)
Doc(build_system, project, other, tool) ==
    LET all == [k \in {"build-system", "project", "other", "tool"} |->
                   CASE k = "build-system" -> build_system
                     [] k = "project" -> project
                     [] k = "other" -> other
                     [] k = "tool" -> tool]
    IN  [k \in {x \in DOMAIN all : all[x].kind # "none"} |-> all[k]]

Optional(vals) == {None} \cup vals

\* Documents whose sections vary, with few tools
SectionDocs ==
    {Doc(b, p, o, t) : b \in Optional(Leaves), p \in Optional(Leaves),
                       o \in Optional({Num(1)}),
                       t \in Optional({Dict(d) : d \in SmallToolTables})}

\* Documents whose tools vary, with the given sections
ToolDocs(b, p) == {Doc(b, p, None, t) : t \in Optional({Dict(d) : d \in ToolTables})}

ExistingGlyphs == {" ", "--cov", "pkg", "-v"}
TemplateGlyphs == {" ", "--cov", "pkg", "-v", "-r"}

ListAddopts ==
    {List(l) : l \in SeqsUpTo({<<"--cov">>, <<"--cov", "pkg">>, <<"pkg">>, <<"-v">>,
                               <<"-v", " ", "--cov">>, <<>>}, 2)}

ExistingAddopts ==
    {Str(x) : x \in SeqsUpTo(ExistingGlyphs, MaxStrLen)} \cup ListAddopts

TemplateAddopts ==
    {Str(x) : x \in SeqsUpTo(TemplateGlyphs, 2)}
    \cup {Str(<<"-r", " ", "-v">>), Str(<<"-r", " ", " ", "-r">>),
          Str(<<"-r", " ", "--cov", "pkg">>), Str(<<"pkg", " ", "-r">>)}
    \cup ListAddopts

Markers ==
    { <<"slow">>, <<"slow", ":", " ", "desc1">>, <<"slow", " ", ":", "desc2">>,
      <<" ", "slow", ":", "desc1", ":", "desc2">>,
      <<"fast", ":", " ", "desc3">>, <<"fast">>, <<":", "slow">> }

MarkerLists == {List(l) : l \in SeqsUpTo(Markers, MaxMarkers)}

\* ini_options tables with the given optional fields
Ini(addopts, markers, minversion, testpaths, other) ==
    LET all == [k \in {"addopts", "markers", "minversion", "testpaths", "other"} |->
                   CASE k = "addopts" -> addopts
                     [] k = "markers" -> markers
                     [] k = "minversion" -> minversion
                     [] k = "testpaths" -> testpaths
                     [] k = "other" -> other]
    IN  [k \in {x \in DOMAIN all : all[x].kind # "none"} |-> all[k]]

-----------------------------------------------------------------------------
(* The merger as a state machine *)

\* The paths merge_pyproject_toml is given
Paths == {"existing", "template", "output"}

\* No file is looked at: the merge is followed in memory only
FilesIdle ==
    /\ files = [p \in Paths |-> None]
    /\ output_path = "existing" /\ error = "none"

MergerIdle ==
    /\ existing_data = EmptyDict /\ template_data = EmptyDict
    /\ overwrite_tools = FALSE /\ merged_data = None
    /\ FilesIdle
    /\ existing_pytest = EmptyDict /\ template_pytest = EmptyDict
    /\ merged_pytest = None

RepairerIdle ==
    /\ file = <<>> /\ backup = <<>> /\ original = <<>> /\ returned = FALSE
    /\ n_matches = 0 /\ all_settings = <<>> /\ runs = 0

ProcessorIdle ==
    /\ template_content = <<>> /\ processed_content = <<>>
    /\ config = [current_phase |-> 0, has_frontend |-> FALSE, has_backend |-> TRUE]

InitMerge ==
    /\ pc = "merge"
    /\ \/ existing_data \in SectionDocs /\ template_data \in SectionDocs
       \/ /\ existing_data \in ToolDocs(Num(1), None)
          /\ template_data \in ToolDocs(Num(2), Num(2))
    /\ overwrite_tools \in BOOLEAN
    /\ merged_data = None
    /\ existing_pytest = EmptyDict /\ template_pytest = EmptyDict
    /\ merged_pytest = None
    /\ FilesIdle
    /\ RepairerIdle /\ ProcessorIdle

\* merge_pyproject_toml(existing_path, template_path, None, overwrite_tools)
Merge ==
    /\ pc = "merge"
    /\ merged_data' = Dict(MergePyprojectToml(existing_data, template_data,
                                               overwrite_tools))
    /\ pc' = "merged"
    /\ UNCHANGED <<existing_data, template_data, overwrite_tools, ioVars>>
    /\ UNCHANGED <<pytestVars, fixVars, templateVars>>

NextMerge == Merge

SpecMerge == InitMerge /\ [][NextMerge]_vars

\* The merger with its files: merge_pyproject_toml from the validation of its
\* inputs to the write of its output.  A file is absent (None), holds a
\* document that tomli parses (Dict), or holds text that tomli rejects.

\* A file whose text tomli.load rejects; `why` tells whether the message is
\* "Cannot declare (...) twice"
Invalid(why) == [kind |-> "invalid", val |-> why]

InvalidFiles == {Invalid("declared_twice"), Invalid("other")}

\* The documents found in the files
FileDocs ==
    { Dict(Doc(Num(1), Num(1), None, None)),
      Dict(Doc(None, Num(2), Num(1), None)),
      Dict(EmptyDict) }

\* A validation that accepts every file
ValidateTomlFile_AcceptsAll(f) == "none"

\* _validate_toml_file: "none" when it returns True, else the exception raised
ValidateTomlFile(f) ==
    IF f.kind = "none" THEN "FileNotFoundError"
    ELSE IF f.kind = "invalid"
         THEN IF f.val = "declared_twice"
              THEN "ValueError: duplicate section"
              ELSE "ValueError: invalid TOML"
    ELSE "none"

InitMergeFiles ==
    /\ pc = "validate_existing"
    /\ \E e \in Optional(FileDocs \cup InvalidFiles),
          t \in Optional(FileDocs \cup InvalidFiles),
          o \in Optional({Dict(Doc(None, None, Num(2), None))}) :
            files = [p \in Paths |-> CASE p = "existing" -> e
                                      [] p = "template" -> t
                                      [] p = "output" -> o]
    /\ output_path \in {"existing", "output"}
    /\ error = "none"
    /\ overwrite_tools \in BOOLEAN
    /\ existing_data = EmptyDict /\ template_data = EmptyDict
    /\ merged_data = None
    /\ existing_pytest = EmptyDict /\ template_pytest = EmptyDict
    /\ merged_pytest = None
    /\ RepairerIdle /\ ProcessorIdle

\* if Path(existing_path).exists(): _validate_toml_file(existing_path)
ValidateExisting ==
    /\ pc = "validate_existing"
    /\ LET result == IF files["existing"].kind # "none"
                     THEN ValidateTomlFile(files["existing"])
                     ELSE "none"
       IN  IF result = "none"
           THEN pc' = "validate_template" /\ UNCHANGED error
           ELSE pc' = "failed" /\ error' = result
    /\ UNCHANGED <<existing_data, template_data, overwrite_tools, merged_data,
                   files, output_path>>
    /\ UNCHANGED <<pytestVars, fixVars, templateVars>>

\* _validate_toml_file(template_path)
ValidateTemplate ==
    /\ pc = "validate_template"
    /\ LET result == ValidateTomlFile(files["template"])
       IN  IF result = "none"
           THEN pc' = "validated" /\ UNCHANGED error
           ELSE pc' = "failed" /\ error' = result
    /\ UNCHANGED <<existing_data, template_data, overwrite_tools, merged_data,
                   files, output_path>>
    /\ UNCHANGED <<pytestVars, fixVars, templateVars>>

\* The rest of merge_pyproject_toml: load both files, merge, write output_path
MergeAndWrite ==
    /\ pc = "validated"
    /\ IF \/ files["existing"].kind = "invalid"
          \/ files["template"].kind # "dict"
       THEN \* tomli.load raises
            /\ pc' = "failed"
            /\ error' = (IF files["template"].kind = "none"
                         THEN "FileNotFoundError" ELSE "TOMLDecodeError")
            /\ UNCHANGED <<existing_data, template_data, merged_data, files>>
       ELSE LET existing == IF files["existing"].kind = "none" THEN EmptyDict
                            ELSE files["existing"].val
                template == files["template"].val
                merged == Dict(MergePyprojectToml(existing, template,
                                                  overwrite_tools))
            IN  /\ existing_data' = existing
                /\ template_data' = template
                /\ merged_data' = merged
                /\ files' = [files EXCEPT ![output_path] = merged]
                /\ pc' = "written"
                /\ UNCHANGED error
    /\ UNCHANGED <<overwrite_tools, output_path>>
    /\ UNCHANGED <<pytestVars, fixVars, templateVars>>

NextMergeFiles == ValidateExisting \/ ValidateTemplate \/ MergeAndWrite

SpecMergeFiles == InitMergeFiles /\ [][NextMergeFiles]_vars

InitPytest ==
    /\ pc = "pytest"
    /\ \/ \E a \in Optional(ExistingAddopts), b \in Optional(TemplateAddopts) :
            /\ existing_pytest = IniOf(Ini(a, None, None, None, None)).val
            /\ template_pytest = IniOf(Ini(b, None, None, None, None)).val
       \/ \E m \in Optional(MarkerLists), n \in Optional(MarkerLists) :
            /\ existing_pytest = IniOf(Ini(None, m, None, None, None)).val
            /\ template_pytest = IniOf(Ini(None, n, None, None, None)).val
       \/ \E v \in Optional({Num(1)}), t \in Optional({Num(1)}),
             o \in Optional({Num(1)}), w \in Optional({Num(2)}),
             u \in Optional({Num(2)}), q \in Optional({Num(2)}) :
            /\ existing_pytest = IniOf(Ini(None, None, v, t, o)).val
            /\ template_pytest = IniOf(Ini(None, None, w, u, q)).val
       \/ /\ existing_pytest \in {EmptyDict, [k \in {"a"} |-> Num(1)]}
          /\ template_pytest \in {EmptyDict, [k \in {"a"} |-> Num(2)],
                                  IniOf([k \in {"addopts"} |-> Str(<<"-r">>)]).val}
    /\ merged_pytest = None
    /\ existing_data = EmptyDict /\ template_data = EmptyDict
    /\ overwrite_tools = TRUE /\ merged_data = None
    /\ FilesIdle
    /\ RepairerIdle /\ ProcessorIdle

\* _merge_pytest_selectively(existing_pytest, template_pytest)
MergePytest ==
    /\ pc = "pytest"
    /\ merged_pytest' = MergePytestSelectively(existing_pytest, template_pytest)
    /\ pc' = "pytest_merged"
    /\ UNCHANGED <<existing_pytest, template_pytest>>
    /\ UNCHANGED <<mergeVars, fixVars, templateVars>>

NextPytest == MergePytest

SpecPytest == InitPytest /\ [][NextPytest]_vars

-----------------------------------------------------------------------------
(* The repairer as a state machine *)

\* The lines a pyproject.toml given to the repairer is made of
TomlLines ==
    { <<HDR, "\n">>,
      <<"[", "tool.black", "]", "\n">>,
      <<"markers", " ", "=", " ", "[", QUOTE, "a", QUOTE, "]", "\n">>,
      <<"markers", " ", "=", " ", "[", QUOTE, "b", QUOTE, ",", " ", QUOTE, "a", QUOTE, "]", "\n">>,
      <<"addopts", " ", "=", " ", QUOTE, "a", QUOTE, "\n">>,
      <<"addopts", " ", "=", " ", QUOTE, "b", QUOTE, "\n">>,
      <<"#", " ", "note", "\n">> }

InitFix ==
    /\ pc = "fix"
    /\ \E lines \in SeqsUpTo(TomlLines, MaxLines) : file = Flatten(lines)
    /\ original = file
    /\ backup = <<>>
    /\ returned = FALSE /\ n_matches = 0 /\ all_settings = <<>> /\ runs = 0
    /\ MergerIdle /\ ProcessorIdle

\* fix_duplicate_sections(file_path, backup=True)
FixDuplicateSections ==
    /\ pc = "fix"
    /\ runs < MaxRuns
    /\ LET content == file
           matches == FindMatches(content)
           settings == ParseSections(content, matches, <<>>)
       IN  /\ backup' = file
           /\ n_matches' = Len(matches)
           /\ IF Len(matches) <= 1
              THEN /\ returned' = FALSE
                   /\ UNCHANGED <<file, all_settings>>
              ELSE /\ returned' = TRUE
                   /\ all_settings' = settings
                   /\ file' = InsertMerged(content, matches, settings)
    /\ runs' = runs + 1
    /\ UNCHANGED <<pc, original>>
    /\ UNCHANGED <<mergeVars, pytestVars, templateVars>>

NextFix == FixDuplicateSections

SpecFix == InitFix /\ [][NextFix]_vars

\* The repairer step by step: the two places where fix_duplicate_sections
\* writes to disk, in the order of the code.

\* A backup step that leaves the .backup file as it is
CreateBackup_Skipped ==
    /\ pc = "fix"
    /\ runs < MaxRuns
    /\ pc' = "fix_backed_up"
    /\ UNCHANGED fixVars
    /\ UNCHANGED <<mergeVars, pytestVars, templateVars>>

\* if backup: dst.write(src.read())
CreateBackup ==
    /\ pc = "fix"
    /\ runs < MaxRuns
    /\ backup' = file
    /\ pc' = "fix_backed_up"
    /\ UNCHANGED <<file, original, returned, n_matches, all_settings, runs>>
    /\ UNCHANGED <<mergeVars, pytestVars, templateVars>>

\* The rest of fix_duplicate_sections: read, find the sections, return False
\* or write the fixed content and return True
RewriteFile ==
    /\ pc = "fix_backed_up"
    /\ LET content == file
           matches == FindMatches(content)
           settings == ParseSections(content, matches, <<>>)
       IN  /\ n_matches' = Len(matches)
           /\ IF Len(matches) <= 1
              THEN /\ returned' = FALSE
                   /\ UNCHANGED <<file, all_settings>>
              ELSE /\ returned' = TRUE
                   /\ all_settings' = settings
                   /\ file' = InsertMerged(content, matches, settings)
    /\ runs' = runs + 1
    /\ pc' = "fix"
    /\ UNCHANGED <<backup, original>>
    /\ UNCHANGED <<mergeVars, pytestVars, templateVars>>

NextFixSteps == CreateBackup \/ RewriteFile

SpecFixSteps == InitFix /\ [][NextFixSteps]_vars

-----------------------------------------------------------------------------
(* The template processor as a state machine *)

PhaseValues == {-1, 0, 1, 2, 3, 4}

\* A block of the given name around a body
Block(name, body) == <<OpenMarker(name)>> \o body \o <<CloseMarker(name)>>

\* The pieces a well-formed template is made of: text, and blocks that hold
\* text, followed or not by a newline
Segments ==
    { <<"x">>, <<"\n">> }
    \cup UNION { { Block(name, <<"a">>),
                   Block(name, <<"a">>) \o <<"\n">>,
                   Block(name, <<"\n", "a", "\n">>) \o <<"\n">> } :
                 name \in BlockNames \ {"HAS_BACKEND"} }

\* The glyphs of an arbitrary template with frontend and backend markers
SoupGlyphs ==
    { OpenMarker("HAS_FRONTEND"), CloseMarker("HAS_FRONTEND"),
      OpenMarker("HAS_BACKEND"), CloseMarker("HAS_BACKEND"), "x", "\n" }

InitTemplate ==
    /\ pc = "template"
    /\ config \in [current_phase : PhaseValues, has_frontend : BOOLEAN,
                   has_backend : BOOLEAN]
    /\ processed_content = <<>>
    /\ MergerIdle /\ RepairerIdle

\* Templates of well-formed, non-nested blocks
InitPhases ==
    /\ InitTemplate
    /\ config.has_backend = TRUE
    /\ \E segs \in SeqsUpTo(Segments, MaxSegments) : template_content = Flatten(segs)

\* Arbitrary templates over the frontend and backend markers
InitFlags ==
    /\ InitTemplate
    /\ config.current_phase \in {0, 2}
    /\ template_content \in SeqsUpTo(SoupGlyphs, MaxSoup)

\* main(): processed_content = process_template(template_content, config)
Process ==
    /\ pc = "template"
    /\ processed_content' = ProcessTemplate(template_content, config)
    /\ pc' = "processed"
    /\ UNCHANGED <<template_content, config>>
    /\ UNCHANGED <<mergeVars, pytestVars, fixVars>>

NextTemplate == Process

SpecPhases == InitPhases /\ [][NextTemplate]_vars

SpecFlags == InitFlags /\ [][NextTemplate]_vars

-----------------------------------------------------------------------------
(* Properties of merge_pyproject_toml, checked under SpecMerge *)

ExistingTool == Get(existing_data, "tool", Dict(EmptyDict)).val
TemplateTool == Get(template_data, "tool", Dict(EmptyDict)).val
MergedTool == merged_data.val["tool"].val

\* C1: in both modes the output's build-system and project sections are
\* exactly the existing document's sections when it has them, and absent when
\* it has none: nothing of the template's two sections reaches the output.
C1_CriticalSectionsPreserved ==
    pc = "merged" =>
        \A key \in CriticalSections :
            IF key \in DOMAIN existing_data
            THEN key \in DOMAIN merged_data.val
                 /\ merged_data.val[key] = existing_data[key]
            ELSE key \notin DOMAIN merged_data.val

\* A merge whose existing and template documents both have the two sections,
\* with different values
C1_Witness ==
    /\ pc = "merged"
    /\ overwrite_tools
    /\ CriticalSections \subseteq DOMAIN existing_data
    /\ CriticalSections \subseteq DOMAIN template_data
    /\ \A key \in CriticalSections : existing_data[key] # template_data[key]
    /\ "tool" \in DOMAIN template_data

RECURSIVE KeyPaths(_, _)
\* The key paths of a table: every path from the table to a key below it
KeyPaths(d, prefix) ==
    UNION {{Append(prefix, k)} \cup
           (IF IsDict(d[k]) THEN KeyPaths(d[k].val, Append(prefix, k)) ELSE {})
           : k \in DOMAIN d}

RECURSIVE LeafPaths(_, _)
\* The leaves of a table: <<path, value>> for every value that is no table
LeafPaths(d, prefix) ==
    UNION {IF IsDict(d[k])
           THEN LeafPaths(d[k].val, Append(prefix, k))
           ELSE {<<Append(prefix, k), d[k]>>}
           : k \in DOMAIN d}

\* C2: in additive mode every key path of the existing tool table is a key
\* path of the output's tool table, with the same value at every leaf, and
\* every leaf of the output that is not the existing document's is the
\* template's, at a path the existing document does not have.
C2_AdditiveKeepsExisting ==
    (pc = "merged" /\ ~overwrite_tools) =>
        /\ KeyPaths(ExistingTool, <<>>) \subseteq KeyPaths(MergedTool, <<>>)
        /\ LeafPaths(ExistingTool, <<>>) \subseteq LeafPaths(MergedTool, <<>>)
        /\ \A leaf \in LeafPaths(MergedTool, <<>>) \ LeafPaths(ExistingTool, <<>>) :
              /\ leaf \in LeafPaths(TemplateTool, <<>>)
              /\ leaf[1] \notin KeyPaths(ExistingTool, <<>>)

\* An additive merge of a tool both documents configure, where a key and a
\* nested key conflict and the template brings a key of its own
C2_Witness ==
    /\ pc = "merged" /\ ~overwrite_tools
    /\ <<"hatch">> \in DOMAIN ExistingTool \cap DOMAIN TemplateTool
    /\ LET e == ExistingTool[<<"hatch">>]
           t == TemplateTool[<<"hatch">>]
       IN  /\ IsDict(e) /\ IsDict(t)
           /\ DOMAIN e.val = {"a"} /\ DOMAIN t.val = {"a", "b"}
           /\ IsDict(e.val["a"]) /\ IsDict(t.val["a"])
           /\ "x" \in DOMAIN e.val["a"].val \cap DOMAIN t.val["a"].val
           /\ e.val["a"].val["x"] # t.val["a"].val["x"]

\* C3: in overwrite mode every allow-listed tool the template defines has
\* exactly the template's value in the output.
C3_OverwriteTakesTemplate ==
    (pc = "merged" /\ overwrite_tools) =>
        \A tool_name \in tools_to_overwrite \cap DOMAIN TemplateTool :
            /\ tool_name \in DOMAIN MergedTool
            /\ MergedTool[tool_name] = TemplateTool[tool_name]

\* An overwrite of black where the existing table has a key the template
\* lacks and another value for a key they share
C3_Witness ==
    /\ pc = "merged" /\ overwrite_tools
    /\ <<"black">> \in DOMAIN ExistingTool \cap DOMAIN TemplateTool
    /\ LET e == ExistingTool[<<"black">>]
           t == TemplateTool[<<"black">>]
       IN  /\ IsDict(e) /\ IsDict(t)
           /\ DOMAIN e.val = {"a", "b"} /\ DOMAIN t.val = {"a"}
           /\ e.val["a"] # t.val["a"]

\* C4: in overwrite mode every existing tool whose name is neither on the
\* allow-list nor pytest keeps exactly its existing value, whatever the
\* template holds, also when its name begins with an allow-listed name; and a
\* tool (other than pytest) that is neither existing nor allow-listed is
\* added with the template's value.
C4_OthersUntouched ==
    (pc = "merged" /\ overwrite_tools) =>
        /\ \A tool_name \in DOMAIN ExistingTool \ (tools_to_overwrite \cup {<<"pytest">>}) :
              /\ tool_name \in DOMAIN MergedTool
              /\ MergedTool[tool_name] = ExistingTool[tool_name]
        /\ \A tool_name \in DOMAIN TemplateTool \
                  (DOMAIN ExistingTool \cup tools_to_overwrite \cup {<<"pytest">>}) :
              /\ tool_name \in DOMAIN MergedTool
              /\ MergedTool[tool_name] = TemplateTool[tool_name]

-----------------------------------------------------------------------------
(* Properties of _merge_pytest_selectively, checked under SpecPytest *)

ExistingIni == Get(existing_pytest, "ini_options", Dict(EmptyDict)).val
TemplateIni == Get(template_pytest, "ini_options", Dict(EmptyDict)).val
MergedIni == merged_pytest.val["ini_options"].val

\* The entries of a sequence whose index satisfies Keep, in order
RECURSIVE SelectIndex(_, _, _)
SelectIndex(seq, Keep(_), i) ==
    IF i > Len(seq) THEN <<>>
    ELSE (IF Keep(i) THEN <<seq[i]>> ELSE <<>>) \o SelectIndex(seq, Keep, i + 1)

\* A sequence without the later duplicates of its entries
FirstOccurrences(seq) ==
    SelectIndex(seq, LAMBDA i : \A j \in 1..(i - 1) : seq[j] # seq[i], 1)

\* The tokens of an addopts value, string or list
TokensOf(addopts) ==
    IF addopts.kind = "str" THEN Split(addopts.val)
    ELSE Flatten([i \in 1..Len(addopts.val) |-> Split(addopts.val[i])])

\* The coverage tokens of an addopts value: those beginning with --cov, and
\* the bare token that follows an exact --cov
CoverageTokens(addopts) ==
    LET tokens == TokensOf(addopts)
    IN  SelectIndex(tokens,
                    LAMBDA i : \/ Head(tokens[i]) = "--cov"
                               \/ /\ i > 1 /\ tokens[i - 1] = <<"--cov">>
                                  /\ Head(tokens[i]) \notin DashGlyphs,
                    1)

\* The merged addopts of the claim: template tokens, then the existing
\* coverage tokens, later duplicates removed, joined by single spaces
ExpectedAddopts ==
    Str(Join(<<" ">>, FirstOccurrences(TokensOf(TemplateIni["addopts"])
                                       \o CoverageTokens(ExistingIni["addopts"]))))

BothHave(key) == key \in DOMAIN ExistingIni /\ key \in DOMAIN TemplateIni

\* C5 as claimed: for every existing and template addopts the merged addopts
\* is the single string ExpectedAddopts.
C5_AddoptsForEveryExisting ==
    (pc = "pytest_merged" /\ BothHave("addopts")) =>
        MergedIni["addopts"] = ExpectedAddopts

\* C5 as amended: for every non-empty existing addopts (a non-empty string or
\* list) the merged addopts is the single string ExpectedAddopts, which holds
\* no token of the existing value other than its coverage tokens and the
\* template's tokens; for an empty existing addopts the merged addopts is the
\* template's value as it stands.
C5_AddoptsForNonEmptyExisting ==
    (pc = "pytest_merged" /\ BothHave("addopts")) =>
        IF ExistingIni["addopts"].val # <<>>
        THEN /\ MergedIni["addopts"] = ExpectedAddopts
             /\ \A i \in 1..Len(Split(MergedIni["addopts"].val)) :
                   LET token == Split(MergedIni["addopts"].val)[i]
                   IN  \/ \E j \in 1..Len(TokensOf(TemplateIni["addopts"])) :
                              TokensOf(TemplateIni["addopts"])[j] = token
                       \/ \E j \in 1..Len(CoverageTokens(ExistingIni["addopts"])) :
                              CoverageTokens(ExistingIni["addopts"])[j] = token
        ELSE MergedIni["addopts"] = TemplateIni["addopts"]

\* The claim's example: "--cov=pkg --verbose" merged into "-ra" gives
\* "-ra --cov=pkg"
C5_Witness ==
    /\ pc = "pytest_merged"
    /\ BothHave("addopts")
    /\ ExistingIni["addopts"] = Str(<<"--cov", "pkg", " ", "-v">>)
    /\ TemplateIni["addopts"] = Str(<<"-r">>)
    /\ MergedIni["addopts"] = Str(<<"-r", " ", "--cov", "pkg">>)

\* The marker names of a list, by position
NameAt(markers, i) == MarkerName(markers[i])

\* The merged markers of the claim: the template's entries, one per name,
\* then the existing entries whose name the template does not use, one per name
ExpectedMarkers ==
    LET tm == TemplateIni["markers"].val
        em == ExistingIni["markers"].val
    IN  SelectIndex(tm, LAMBDA i : \A j \in 1..(i - 1) : NameAt(tm, j) # NameAt(tm, i), 1)
        \o SelectIndex(em,
                       LAMBDA i : /\ \A j \in 1..Len(tm) : NameAt(tm, j) # NameAt(em, i)
                                  /\ \A j \in 1..(i - 1) : NameAt(em, j) # NameAt(em, i),
                       1)

\* C6: for every pair of marker lists the merged markers hold at most one
\* entry per marker name: the template's markers in template order, then the
\* existing markers whose name is not taken, in existing order; on a name both
\* sides use, the entry kept is the template's.
C6_MarkersUnionByName ==
    (pc = "pytest_merged" /\ BothHave("markers")) =>
        LET merged == MergedIni["markers"].val
        IN  /\ merged = ExpectedMarkers
            /\ \A i, j \in 1..Len(merged) :
                  NameAt(merged, i) = NameAt(merged, j) => i = j
            /\ \A i \in 1..Len(merged) :
                  (\E j \in 1..Len(TemplateIni["markers"].val) :
                       NameAt(TemplateIni["markers"].val, j) = NameAt(merged, i))
                  => \E j \in 1..Len(TemplateIni["markers"].val) :
                       TemplateIni["markers"].val[j] = merged[i]

\* The claim's example: ["slow: desc1"] merged into ["slow :desc2",
\* "fast: desc3"] gives the template's two entries
C6_Witness ==
    /\ pc = "pytest_merged"
    /\ BothHave("markers")
    /\ ExistingIni["markers"].val = << <<"slow", ":", " ", "desc1">> >>
    /\ TemplateIni["markers"].val =
           << <<"slow", " ", ":", "desc2">>, <<"fast", ":", " ", "desc3">> >>
    /\ MergedIni["markers"].val = TemplateIni["markers"].val

-----------------------------------------------------------------------------
(* Properties of fix_duplicate_sections, checked under SpecFix *)

\* The lines of a file, without their newlines
LinesOf(content) == SplitOn(content, "\n")

IsHeaderLine(line) == Strip(line) # <<>> /\ OpensBracket(Head(Strip(line)))

\* The [tool.pytest.ini_options] section line i belongs to: the index of the
\* header line that opens it, or 0 when line i is in no such section
PytestSectionOf(lines, i) ==
    LET headers == {h \in 1..(i - 1) : IsHeaderLine(lines[h])}
        last == CHOOSE h \in headers : \A g \in headers : g <= h
    IN  IF headers = {} \/ IsHeaderLine(lines[i]) THEN 0
        ELSE IF Strip(lines[last]) = <<HDR>> THEN last ELSE 0

KeyOfLine(line) ==
    LET eq == Find(line, "=", 1)
    IN  IF eq = 0 THEN <<>> ELSE Strip(SubSeq(line, 1, eq - 1))

ValueOfLine(line) ==
    LET eq == Find(line, "=", 1)
    IN  IF eq = 0 THEN <<>> ELSE Strip(SubSeq(line, eq + 1, Len(line)))

\* The lines of a file that give `key` an array value inside a
\* [tool.pytest.ini_options] section
ArrayLines(lines, key) ==
    {i \in 1..Len(lines) :
        /\ PytestSectionOf(lines, i) # 0
        /\ KeyOfLine(lines[i]) = key
        /\ ValueOfLine(lines[i]) # <<>> /\ Head(ValueOfLine(lines[i])) = "["}

\* The items of all array values of `key`, in file order
RECURSIVE ItemsFrom(_, _, _)
ItemsFrom(lines, key, i) ==
    IF i > Len(lines) THEN <<>>
    ELSE (IF i \in ArrayLines(lines, key)
          THEN FindQuoted(ValueOfLine(lines[i])) ELSE <<>>)
         \o ItemsFrom(lines, key, i + 1)

ArrayKeys == {<<"markers">>, <<"addopts">>}

\* `key` has an array value in more than one section of the file
InSeveralSections(lines, key) ==
    Cardinality({PytestSectionOf(lines, i) : i \in ArrayLines(lines, key)}) > 1

\* C7: when the repairer merges the sections of a file, every key with an
\* array value in more than one [tool.pytest.ini_options] section has, in the
\* merged section, an array holding the union of the items of all its
\* occurrences, without duplicates, in first-seen order.
C7_ArraysUnioned ==
    (pc = "fix" /\ runs = 1 /\ returned) =>
        \A key \in ArrayKeys :
            InSeveralSections(LinesOf(original), key) =>
                \E i \in 1..Len(all_settings) :
                    /\ all_settings[i].key = key
                    /\ IsArrayValue(all_settings[i].value)
                    /\ FindQuoted(all_settings[i].value)
                           = FirstOccurrences(ItemsFrom(LinesOf(original), key, 1))

\* C8: once a run of the repairer has applied a fix, every further run on the
\* file finds at most one section, returns False and leaves the file as it is.
C8_Idempotent ==
    [][ (pc = "fix" /\ runs >= 1 /\ (returned \/ file # original)
         /\ runs' = runs + 1)
        => (returned' = FALSE /\ file' = file /\ n_matches' <= 1) ]_vars

\* A second run on a file that the first run has fixed
C8_Witness ==
    /\ pc = "fix" /\ runs = 2
    /\ file # original
    /\ Len(FindMatches(original)) = 3
    /\ returned = FALSE /\ n_matches = 1

-----------------------------------------------------------------------------
(* Properties of process_template, checked under SpecPhases and SpecFlags *)

IsOpenMarker(g) == \E n \in BlockNames : g = OpenMarker(n)

IsCloseMarker(g) == \E n \in BlockNames : g = CloseMarker(n)

\* The block name a marker glyph carries
BlockOf(g) == CHOOSE n \in BlockNames : g \in {OpenMarker(n), CloseMarker(n)}

MarkersOf(name) == {OpenMarker(name), CloseMarker(name)}

HasGlyphIn(s, glyphs) == \E i \in 1..Len(s) : s[i] \in glyphs

\* The phase blocks whose content the stated rule keeps: PHASE_n when the
\* phase is n (3 and above counting as 3), PHASE_1_OR_HIGHER from phase 1,
\* PHASE_2_OR_HIGHER from phase 2
KeptPhases(phase) ==
    LET level == IF phase >= 3 THEN 3 ELSE phase
    IN  (IF level = 0 THEN {"PHASE_0"} ELSE {})
        \cup (IF level = 1 THEN {"PHASE_1"} ELSE {})
        \cup (IF level = 2 THEN {"PHASE_2"} ELSE {})
        \cup (IF level = 3 THEN {"PHASE_3"} ELSE {})
        \cup (IF phase >= 1 THEN {"PHASE_1_OR_HIGHER"} ELSE {})
        \cup (IF phase >= 2 THEN {"PHASE_2_OR_HIGHER"} ELSE {})

\* The blocks whose content is to be kept under a configuration
KeptBlocks(cfg) ==
    KeptPhases(cfg.current_phase)
    \cup (IF cfg.has_frontend THEN {"HAS_FRONTEND"} ELSE {})
    \cup (IF cfg.has_backend THEN {"HAS_BACKEND"} ELSE {})

RECURSIVE WellNested(_, _)
\* Every marker is paired, blocks do not cross, and no block lies inside a
\* block of its own name; `stack` holds the names of the open blocks
WellNested(s, stack) ==
    IF s = <<>> THEN stack = <<>>
    ELSE IF IsOpenMarker(Head(s))
         THEN /\ \A i \in 1..Len(stack) : stack[i] # BlockOf(Head(s))
              /\ WellNested(Tail(s), <<BlockOf(Head(s))>> \o stack)
    ELSE IF IsCloseMarker(Head(s))
         THEN /\ stack # <<>> /\ Head(stack) = BlockOf(Head(s))
              /\ WellNested(Tail(s), Tail(stack))
    ELSE WellNested(Tail(s), stack)

WellFormed(s) == WellNested(s, <<>>)

RECURSIVE Conforms(_, _, _, _, _, _)
\* `out` is what is left of the well-formed text `s` when every marker is
\* deleted and every block whose name is not in `kept` is deleted with its
\* content.  `open` holds the names of the blocks around the head of `s`.
\* With `lenient`, each deleted marker and each deleted block may also take
\* one newline that follows it: `slack` counts the deletions made since the
\* last glyph that was kept.
Conforms(s, out, open, kept, slack, lenient) ==
    IF s = <<>> THEN out = <<>>
    ELSE IF IsOpenMarker(Head(s))
         THEN LET inner == open \cup {BlockOf(Head(s))}
              IN  Conforms(Tail(s), out, inner, kept,
                           IF inner \subseteq kept THEN slack + 1 ELSE slack,
                           lenient)
    ELSE IF IsCloseMarker(Head(s))
         THEN LET outer == open \ {BlockOf(Head(s))}
              IN  Conforms(Tail(s), out, outer, kept,
                           IF outer \subseteq kept THEN slack + 1 ELSE slack,
                           lenient)
    ELSE IF ~(open \subseteq kept)
         THEN Conforms(Tail(s), out, open, kept, slack, lenient)
    ELSE IF /\ Head(s) = "\n" /\ lenient /\ slack > 0
            /\ Conforms(Tail(s), out, open, kept, slack - 1, lenient)
         THEN TRUE
    ELSE /\ out # <<>> /\ Head(out) = Head(s)
         /\ Conforms(Tail(s), Tail(out), open, kept, 0, lenient)

\* Only markers and whole discarded blocks are missing from the output
ExactlyGated == Conforms(template_content, processed_content, {},
                         KeptBlocks(config), 0, FALSE)

\* As ExactlyGated, but a newline that follows a deletion may be missing too
GatedUpToNewlines == Conforms(template_content, processed_content, {},
                              KeptBlocks(config), 0, TRUE)

FlagMarkers == MarkersOf("HAS_FRONTEND") \cup MarkersOf("HAS_BACKEND")

TrueFlagsLeaveNoMarker ==
    /\ config.has_frontend =>
           ~HasGlyphIn(processed_content, MarkersOf("HAS_FRONTEND"))
    /\ config.has_backend =>
           ~HasGlyphIn(processed_content, MarkersOf("HAS_BACKEND"))

\* A false flag leaves no marker of its kind in the output
FalseFlagsLeaveNoMarker ==
    /\ ~config.has_frontend =>
           ~HasGlyphIn(processed_content, MarkersOf("HAS_FRONTEND"))
    /\ ~config.has_backend =>
           ~HasGlyphIn(processed_content, MarkersOf("HAS_BACKEND"))

-----------------------------------------------------------------------------
(* The frame of fix_duplicate_sections, checked under SpecFix *)

RECURSIVE OutsideFrom(_, _, _, _)
\* The text of the lines i.. that lie at or after the first
\* [tool.pytest.ini_options] header and in no such section: the other
\* sections with their values.  `inPytest` and `seen` tell whether the line
\* before i is in a pytest section and whether a pytest header came before.
OutsideFrom(lines, i, inPytest, seen) ==
    IF i > Len(lines) THEN <<>>
    ELSE LET header == IsHeaderLine(lines[i])
             pytest == IF header THEN Strip(lines[i]) = <<HDR>> ELSE inPytest
             text == lines[i] \o (IF i < Len(lines) THEN <<"\n">> ELSE <<>>)
         IN  (IF (seen \/ pytest) /\ ~pytest THEN text ELSE <<>>)
             \o OutsideFrom(lines, i + 1, pytest, seen \/ pytest)

OutsideText(content) == OutsideFrom(LinesOf(content), 1, FALSE, FALSE)

CountOf(s, g) == Cardinality({i \in 1..Len(s) : s[i] = g})

\* A line of a section body that is blank, a comment, or a whole `key = value`
IsSettingLine(line) ==
    \/ Strip(line) = <<>>
    \/ Head(Strip(line)) = "#"
    \/ /\ ~IsHeaderLine(line)
       /\ KeyOfLine(line) # <<>> /\ ValueOfLine(line) # <<>>

\* C11: when the repairer applies a fix, the written file has exactly one
\* [tool.pytest.ini_options] header, at the offset of the first original
\* section; the text before that offset is unchanged; the text outside the
\* original sections follows the merged section unchanged; and nothing but the
\* merged section's settings stands between the header and that text.
C11_OneSectionInPlace ==
    (pc = "fix" /\ runs = 1 /\ returned) =>
        LET start == Find(original, HDR, 1)
            outside == OutsideText(original)
            stop == Len(file) - Len(outside)
            section == LinesOf(SubSeq(file, start, stop))
        IN  /\ CountOf(file, HDR) = 1
            /\ file[start] = HDR
            /\ SubSeq(file, 1, start - 1) = SubSeq(original, 1, start - 1)
            /\ stop >= start
            /\ SubSeq(file, stop + 1, Len(file)) = outside
            /\ \A i \in 2..Len(section) : IsSettingLine(section[i])

\* The same frame, asked only of files whose pytest sections hold no "["
C11_OneSectionInPlace_NoBracket ==
    (pc = "fix" /\ runs = 1 /\ returned
     /\ \A i \in 1..Len(LinesOf(original)) :
            PytestSectionOf(LinesOf(original), i) # 0
                => Find(LinesOf(original)[i], "[", 1) = 0)
        => C11_OneSectionInPlace

-----------------------------------------------------------------------------
(* The backup of fix_duplicate_sections, checked under SpecFixSteps *)

\* In every run the .backup file is written first, with the target's content
\* as the run found it, and the target is written only after that
BackupBeforeWrite ==
    [][ /\ (pc = "fix" /\ pc' # pc) => (backup' = file /\ file' = file)
        /\ (pc = "fix_backed_up") => (backup = file /\ backup' = backup)
      ]_vars

\* Once a run has written it, the .backup file holds the original content
BackupHoldsOriginal ==
    (runs >= 1 \/ pc = "fix_backed_up") => backup = original

\* C12 as stated: in every run the .backup file is written before any write
\* to the target, with the target's content at the start of the run; and
\* across any sequence of runs on the same path the .backup file holds the
\* original, pre-repair content.
C12_BackupKeepsOriginal == BackupBeforeWrite /\ []BackupHoldsOriginal

\* C12 as amended: in every run the .backup file is written before any write
\* to the target, with the target's content at the start of that run; the
\* .backup file holds the original content until the first run that follows
\* a fix, which replaces it with the content that fix has written.
C12_BackupOfLatestRun ==
    /\ BackupBeforeWrite
    /\ [][ (pc = "fix" /\ pc' # pc /\ file = original) => backup' = original ]_vars
    /\ [](( /\ pc = "fix_backed_up" /\ file # original) => backup # original)

\* The second run has written its backup: it holds the fixed content
C12_Witness ==
    /\ pc = "fix_backed_up" /\ runs = 1 /\ returned
    /\ file # original
    /\ backup = file

-----------------------------------------------------------------------------
(* The validation of merge_pyproject_toml, checked under SpecMergeFiles *)

\* The existing file, if there is one, and the template file both parse
InputsParse ==
    /\ files["existing"].kind \in {"none", "dict"}
    /\ files["template"].kind = "dict"

\* C13: merge_pyproject_toml validates both inputs before it writes anything.
\* If the existing file (when it exists) or the template file fails to parse,
\* the call ends with an error and every file, the output file included, is
\* left as it was; the output is written only by the step that follows two
\* successful validations.
C13_ValidatedBeforeWrite ==
    /\ [][ files' # files => (pc = "validated" /\ InputsParse) ]_vars
    /\ [][ pc' = "written" => (pc = "validated" /\ InputsParse) ]_vars
    /\ [][ pc' = "failed" => (files' = files /\ error' # "none") ]_vars
    /\ [](pc = "validated" => InputsParse)
    /\ [](~InputsParse => pc \in {"validate_existing", "validate_template",
                                  "failed"})

\* A template declared twice ends the call before the existing file, which is
\* also the output file, is touched
C13_Witness ==
    /\ pc = "failed"
    /\ error = "ValueError: duplicate section"
    /\ output_path = "existing"
    /\ files["existing"] = Dict(Doc(Num(1), Num(1), None, None))
    /\ files["template"] = Invalid("declared_twice")

=============================================================================
